---- MODULE Spec2Model ----
(***************************************************************************)
(* Model of src/main.py: the /predict/ and /solve request handlers, the    *)
(* two Gemini adapters (ocr_with_gemini, solve_with_gemini), the SymPy     *)
(* fallback (quick_sympy_steps) and the unused image normalizer            *)
(* (preprocess_image).                                                     *)
(*                                                                         *)
(* A Python str is a sequence of tokens: a LaTeX text is a sequence of the *)
(* one-character tokens of Alphabet, a fixed message of the code is the    *)
(* one-token sequence holding that message.  A Python value whose type     *)
(* matters (the members of a step dict, the parsed JSON of a reply) is a   *)
(* tagged record [t, v].  A call that may raise yields a record with the   *)
(* field raised; try/except is the operator that inspects it.              *)
(***************************************************************************)
EXTENDS Naturals, Sequences, FiniteSets

\* Longest text the remote model returns / the fallback is called with.
MaxLen == 3
\* Longest "steps" array in a reply of the remote solver.
MaxSteps == 2

Alphabet == {"x", "=", " "}

RECURSIVE TextsUpTo(_)
TextsUpTo(n) ==
    IF n = 0 THEN {<<>>}
    ELSE LET shorter == TextsUpTo(n - 1)
         IN  shorter \cup {Append(t, c) : t \in {s \in shorter : Len(s) = n - 1}, c \in Alphabet}

Texts == TextsUpTo(MaxLen)

----------------------------------------------------------------------------
\* Python values and exceptions

PyStr(text) == [t |-> "str", v |-> text]
PyNone == [t |-> "null", v |-> <<>>]
PyNum == [t |-> "num", v |-> <<"7">>]
PyList(items) == [t |-> "arr", v |-> items]
PyDict(fields) == [t |-> "obj", v |-> fields]

Return(val) == [raised |-> FALSE, value |-> val, msg |-> <<>>]
Raise(message) == [raised |-> TRUE, value |-> <<>>, msg |-> message]

\* str.strip(): drop leading and trailing whitespace
RECURSIVE lstrip(_)
lstrip(text) ==
    IF text # <<>> /\ Head(text) = " " THEN lstrip(Tail(text)) ELSE text

RECURSIVE rstrip(_)
rstrip(text) ==
    IF text # <<>> /\ text[Len(text)] = " "
    THEN rstrip(SubSeq(text, 1, Len(text) - 1))
    ELSE text

strip(text) == rstrip(lstrip(text))

----------------------------------------------------------------------------
\* Images (PIL) and encoded image bytes

ImageModes == {"L", "RGB"}
Contrasts == {"raw", "auto"}

\* An upload is either bytes no decoder recognises or an encoded image.
Garbage == [kind |-> "garbage", mode |-> "", contrast |-> ""]
Uploads ==
    {Garbage}
        \cup {[kind |-> "image", mode |-> m, contrast |-> "raw"] : m \in ImageModes}
        \cup {[kind |-> "image", mode |-> "L", contrast |-> "auto"]}

NoImage == [enc |-> "", mode |-> "", contrast |-> ""]

\* a decoder that accepts any bytes
Image_open_lenient(u) ==
    Return([enc |-> "PIL", mode |-> IF u.kind = "image" THEN u.mode ELSE "RGB", contrast |-> "raw"])

\* Image.open(...): raises UnidentifiedImageError on undecodable bytes
Image_open(u) ==
    IF u.kind = "image"
    THEN Return([enc |-> "PIL", mode |-> u.mode, contrast |-> u.contrast])
    ELSE Raise(<<"cannot identify image file">>)

\* Image.convert(mode)
convert(image, mode) == [image EXCEPT !.mode = mode]

\* ImageOps.autocontrast(img, cutoff=1)
autocontrast(image) == [image EXCEPT !.contrast = "auto"]

\* img.save(buf, format="PNG"); buf.getvalue()
save_png(image) == [image EXCEPT !.enc = "PNG"]

preprocess_image(image) == save_png(autocontrast(convert(image, "L")))

\* Image.open(...).convert("RGB") as one expression that may raise
open_rgb(u) ==
    LET opened == Image_open(u)
    IN  IF opened.raised THEN opened ELSE Return(convert(opened.value, "RGB"))

----------------------------------------------------------------------------
\* ocr_with_gemini

\* What GEMINI_MODEL.generate_content(...) can do for the OCR request:
\* raise (transport, authentication, quota), return nothing, return a
\* response whose .text raises, whose .text is None, or whose .text is a str.
OcrReplies ==
    {[kind |-> k, text |-> <<>>] : k \in {"raise", "none", "text_raises", "text_none"}}
        \cup {[kind |-> "text", text |-> t] : t \in Texts}

\* The img_input values of the three isinstance branches and of the else.
OcrInputs ==
    {[type |-> "str", readable |-> r, mime |-> m, data |-> [enc |-> "PNG", mode |-> "L", contrast |-> "raw"]] :
        r \in BOOLEAN, m \in {"image/png", "None"}}
    \cup {[type |-> "bytes", readable |-> TRUE, mime |-> "", data |-> [enc |-> e, mode |-> "RGB", contrast |-> "raw"]] :
        e \in {"PNG", "JPEG"}}
    \cup {[type |-> "Image", readable |-> TRUE, mime |-> "", data |-> [enc |-> "PIL", mode |-> m, contrast |-> c]] :
        m \in ImageModes, c \in Contrasts}
    \cup {[type |-> "other", readable |-> TRUE, mime |-> "", data |-> NoImage]}

NoPayload == [mime_type |-> "", data |-> NoImage]

\* lines 125-141: the bytes and MIME type of the request, or an exception
ocr_payload(img_input) ==
    CASE img_input.type = "str" ->
            IF img_input.readable
            THEN Return([mime_type |-> img_input.mime, data |-> img_input.data])
            ELSE Raise(<<"No such file or directory">>)
      [] img_input.type = "bytes" ->
            Return([mime_type |-> "image/png", data |-> img_input.data])
      [] img_input.type = "Image" ->
            Return([mime_type |-> "image/png", data |-> save_png(img_input.data)])
      [] OTHER -> Raise(<<"Unsupported input type">>)

\* lines 125-160: the body of the try block
ocr_body(img_input, remote) ==
    LET payload == ocr_payload(img_input)
    IN  IF payload.raised
        THEN [raised |-> TRUE, value |-> <<>>, msg |-> payload.msg, requests |-> 0, sent |-> NoPayload]
        ELSE CASE remote.kind \in {"raise", "text_raises"} ->
                    [raised |-> TRUE, value |-> <<>>, msg |-> <<"generate_content failed">>,
                     requests |-> 1, sent |-> payload.value]
               [] remote.kind = "text" /\ remote.text # <<>> ->
                    [raised |-> FALSE, value |-> strip(remote.text), msg |-> <<>>,
                     requests |-> 1, sent |-> payload.value]
               [] OTHER ->
                    [raised |-> FALSE, value |-> <<>>, msg |-> <<>>,
                     requests |-> 1, sent |-> payload.value]

\* the adapter without its except clause
ocr_uncaught(img_input, remote) == ocr_body(img_input, remote)

\* lines 123-164: except Exception: return ""
ocr_with_gemini(img_input, remote) ==
    LET body == ocr_body(img_input, remote)
    IN  IF body.raised
        THEN [body EXCEPT !.raised = FALSE, !.value = <<>>]
        ELSE body

----------------------------------------------------------------------------
\* solve_with_gemini

\* A key a dict does not hold.
Absent == [t |-> "absent", v |-> <<>>]

\* dict.get(key, default) on the value stored under the key
get(stored, default) == IF stored = Absent THEN default ELSE stored

\* The values a "step" and a "detail" member of a reply entry can take.
StepVals == {Absent, PyNone, PyStr(<<"x">>)}
DetailVals == {Absent, PyStr(<<"x">>)}

\* The entries of a "steps" array: one that is no object, and objects.
Entries ==
    {PyNum} \cup {PyDict([step |-> a, detail |-> b]) : a \in StepVals, b \in DetailVals}

RECURSIVE EntrySeqs(_)
EntrySeqs(n) ==
    IF n = 0 THEN {<<>>}
    ELSE LET shorter == EntrySeqs(n - 1)
         IN  shorter \cup {Append(q, e) : q \in {r \in shorter : Len(r) = n - 1}, e \in Entries}

\* The values the "steps" member of the reply object can take.
StepsVals ==
    {Absent, PyNone, PyNum, PyStr(<<"x">>), PyDict([step |-> Absent, detail |-> Absent])}
        \cup {PyList(q) : q \in EntrySeqs(MaxSteps)}

\* The reply text: not JSON at all, or the JSON value it encodes.
Malformed == [wf |-> FALSE, val |-> PyNone]
Docs ==
    {Malformed}
        \cup {[wf |-> TRUE, val |-> j] : j \in {PyNone, PyNum, PyList(<<>>)}}
        \cup {[wf |-> TRUE, val |-> PyDict([steps |-> sv])] : sv \in StepsVals}

\* What GEMINI_MODEL.generate_content(...) can do for the solve request.
SolverReplies ==
    {[kind |-> k, doc |-> Malformed] : k \in {"raise", "text_raises", "text_none"}}
        \cup {[kind |-> "text", doc |-> d] : d \in Docs}

\* json.loads(response.text)
json_loads(remote) ==
    CASE remote.kind = "text_none" -> Raise(<<"the JSON object must be str, bytes or bytearray, not NoneType">>)
      [] ~remote.doc.wf -> Raise(<<"Expecting value">>)
      [] OTHER -> Return(remote.doc.val)

\* line 186: the list comprehension over an iterable of entries
RECURSIVE comprehend(_)
comprehend(entries) ==
    IF entries = <<>> THEN <<>>
    ELSE LET s == Head(entries)
         IN  IF s.t = "obj"
             THEN <<[step |-> get(s.v.step, PyStr(<<>>)), detail |-> get(s.v.detail, PyStr(<<>>))]>>
                     \o comprehend(Tail(entries))
             ELSE comprehend(Tail(entries))

\* lines 176-186: the body of the try block
solve_body(latex_expr, remote) ==
    IF remote.kind \in {"raise", "text_raises"}
    THEN Raise(<<"generate_content failed">>)
    ELSE LET data == json_loads(remote)
         IN  IF data.raised THEN data
             ELSE IF data.value.t # "obj"
             THEN Raise(<<"object has no attribute 'get'">>)
             ELSE LET steps_ == get(data.value.v.steps, PyList(<<>>))
                  IN  CASE steps_.t \in {"null", "num"} -> Raise(<<"object is not iterable">>)
                        \* a str iterates over its characters, a dict over its keys: no dict among them
                        [] steps_.t \in {"str", "obj"} -> Return(<<>>)
                        [] OTHER -> Return(comprehend(steps_.v))

AI_SOLVER_UNAVAILABLE == PyStr(<<"AI solver unavailable">>)

\* the adapter without its except clause
solve_uncaught(latex_expr, remote) == solve_body(latex_expr, remote)

\* the adapter reporting a failure as an empty list
solve_empty_on_failure(latex_expr, remote) ==
    LET body == solve_body(latex_expr, remote)
    IN  IF body.raised
        THEN [body EXCEPT !.raised = FALSE, !.value = <<>>]
        ELSE body

\* lines 167-190: except Exception: return the one synthetic step
solve_with_gemini(latex_expr, remote) ==
    LET body == solve_body(latex_expr, remote)
    IN  IF body.raised
        THEN [body EXCEPT !.raised = FALSE,
                          !.value = <<[step |-> AI_SOLVER_UNAVAILABLE, detail |-> PyStr(body.msg)]>>]
        ELSE body

----------------------------------------------------------------------------
\* quick_sympy_steps

\* sympy expressions over the alphabet: a symbol, a difference of two
\* symbols, or the zero a difference of equal symbols evaluates to
Symbol(name) == [kind |-> "Symbol", a |-> name, b |-> <<>>]
Zero == [kind |-> "Zero", a |-> <<>>, b |-> <<>>]
Sub(l, r) == IF l = r THEN Zero ELSE [kind |-> "Add", a |-> l.a, b |-> r.a]

\* sympify(text): the parser ignores surrounding whitespace; over Alphabet
\* the only well-formed expression is one identifier
sympify(text) ==
    LET code == strip(text)
    IN  IF code # <<>> /\ \A i \in 1..Len(code) : code[i] = "x"
        THEN Return(Symbol(code))
        ELSE Raise(<<"SympifyError">>)

SimplifyOutcomes == {"ok", "raise"}

\* simplify(expr): these expressions are already in simplest form
simplify(expr, outcome) ==
    IF outcome = "raise" THEN Raise(<<"simplify failed">>) ELSE Return(expr)

\* str(expr)
str_expr(expr) ==
    CASE expr.kind = "Symbol" -> expr.a
      [] expr.kind = "Zero" -> <<"0">>
      [] OTHER -> expr.a \o <<" ", "-", " ">> \o expr.b

\* "=" in latex_expr
has_equals(text) == \E i \in 1..Len(text) : text[i] = "="

\* latex_expr.split("=", 1)
split_equals(text) ==
    LET at == CHOOSE i \in 1..Len(text) : text[i] = "=" /\ \A j \in 1..(i - 1) : text[j] # "="
    IN  <<SubSeq(text, 1, at - 1), SubSeq(text, at + 1, Len(text))>>

\* lines 195-200: the expression the text denotes
parse_expr(latex_expr) ==
    IF has_equals(latex_expr)
    THEN LET parts == split_equals(latex_expr)
             lhs == sympify(parts[1])
             rhs == sympify(parts[2])
         IN  IF lhs.raised THEN lhs
             ELSE IF rhs.raised THEN rhs
             ELSE Return(Sub(lhs.value, rhs.value))
    ELSE sympify(latex_expr)

PARSE_LATEX == PyStr(<<"Parse LaTeX">>)
SIMPLIFY == PyStr(<<"Simplify">>)
COULD_NOT_PARSE == PyStr(<<"Could not parse with SymPy">>)

\* lines 195-206: the body of the try block
sympy_body(latex_expr, outcome) ==
    LET expr == parse_expr(latex_expr)
    IN  IF expr.raised THEN expr
        ELSE LET simp == simplify(expr.value, outcome)
             IN  IF simp.raised THEN simp
                 ELSE Return(<<[step |-> PARSE_LATEX, detail |-> PyStr(str_expr(expr.value))],
                               [step |-> SIMPLIFY, detail |-> PyStr(str_expr(simp.value))]>>)

\* the fallback without its except clause
sympy_uncaught(latex_expr, outcome) == sympy_body(latex_expr, outcome)

\* lines 192-210: except Exception: return the one diagnostic step
quick_sympy_steps(latex_expr, outcome) ==
    LET body == sympy_body(latex_expr, outcome)
    IN  IF body.raised
        THEN [body EXCEPT !.raised = FALSE,
                          !.value = <<[step |-> COULD_NOT_PARSE, detail |-> PyStr(body.msg)]>>]
        ELSE body

----------------------------------------------------------------------------
\* The request handlers

VARIABLES
    op,        \* the endpoint or function under way: "none" before any
    pc,        \* the position inside it
    upload,    \* the uploaded file
    img,       \* the decoded image
    latex,     \* solve: latex
    steps,     \* solve: steps
    note,      \* solve: note
    response,  \* the dict returned to the client; no keys while pending
    calls      \* the adapter and fallback calls made so far, in order

vars == <<op, pc, upload, img, latex, steps, note, response, calls>>

OCR_NOTE == <<"Gemini OCR unavailable (quota may be exceeded).">>
SOLVER_NOTE == <<"Gemini solver unavailable (quota may be exceeded).">>
FALLBACK_NOTE == <<"SymPy fallback used.">>

Pending == <<>>

\* A logged call: the function, its argument, what the collaborator behind
\* it did (the kind of OCR reply, the solver reply, the simplify outcome)
\* and the result returned to the caller.
Call(fn, arg, remote, res) == [fn |-> fn, arg |-> arg, remote |-> remote, res |-> res]

AsImage(image) == [type |-> "Image", readable |-> TRUE, mime |-> "", data |-> image]

Init ==
    /\ op = "none"
    /\ pc = "idle"
    /\ upload = Garbage
    /\ img = NoImage
    /\ latex = <<>>
    /\ steps = <<>>
    /\ note = <<>>
    /\ response = Pending
    /\ calls = <<>>

\* lines 25-26 / 39-41 and the outer except: read and decode the upload
Decode(endpoint, u) ==
    /\ pc = "idle"
    /\ op' = endpoint
    /\ upload' = u
    /\ LET opened == open_rgb(u)
       IN  IF opened.raised
           THEN /\ response' = [error |-> opened.msg]
                /\ pc' = "done"
                /\ img' = img
           ELSE /\ img' = opened.value
                /\ pc' = "decoded"
                /\ response' = response
    /\ UNCHANGED <<latex, steps, note, calls>>

PredictDecode(u) == Decode("predict", u)

SolveDecode(u) == Decode("solve", u)

\* lines 27-33
PredictOcr(remote) ==
    /\ op = "predict"
    /\ pc = "decoded"
    /\ LET result == ocr_with_gemini(AsImage(img), remote)
       IN  /\ calls' = Append(calls, Call("ocr_with_gemini", AsImage(img), remote.kind, result))
           /\ response' = IF result.raised
                          THEN [error |-> result.msg]
                          ELSE [latex |-> result.value]
    /\ pc' = "done"
    /\ UNCHANGED <<op, upload, img, latex, steps, note>>

\* lines 42-47
SolveOcr(remote) ==
    /\ op = "solve"
    /\ pc = "decoded"
    /\ LET result == ocr_with_gemini(AsImage(img), remote)
       IN  /\ calls' = Append(calls, Call("ocr_with_gemini", AsImage(img), remote.kind, result))
           /\ IF result.raised
              THEN /\ latex' = <<>>
                   /\ note' = OCR_NOTE
              ELSE /\ latex' = result.value
                   /\ note' = note
    /\ pc' = "transcribed"
    /\ UNCHANGED <<op, upload, img, steps, response>>

\* the solver stage without the "if latex else []" guard
SolveSteps_unguarded(remote) ==
    /\ op = "solve"
    /\ pc = "transcribed"
    /\ LET result == solve_with_gemini(latex, remote)
       IN  /\ calls' = Append(calls, Call("solve_with_gemini", latex, remote, result))
           /\ steps' = result.value
           /\ note' = note
    /\ pc' = "solved"
    /\ UNCHANGED <<op, upload, img, latex, response>>

\* lines 50-57
SolveSteps(remote) ==
    /\ op = "solve"
    /\ pc = "transcribed"
    /\ IF latex # <<>>
       THEN LET result == solve_with_gemini(latex, remote)
            IN  /\ calls' = Append(calls, Call("solve_with_gemini", latex, remote, result))
                /\ IF result.raised
                   THEN /\ steps' = <<>>
                        /\ note' = (IF note # <<>> THEN note \o <<" ">> ELSE note) \o SOLVER_NOTE
                   ELSE /\ steps' = result.value
                        /\ note' = note
       ELSE /\ steps' = <<>>
            /\ UNCHANGED <<calls, note>>
    /\ pc' = "solved"
    /\ UNCHANGED <<op, upload, img, latex, response>>

\* lines 64-66
Respond(latex_, steps_, note_) ==
    IF note_ # <<>>
    THEN [latex |-> latex_, steps |-> steps_, note |-> note_]
    ELSE [latex |-> latex_, steps |-> steps_]

\* the last stage running the fallback whatever the steps are
SolveRespond_always(outcome) ==
    /\ op = "solve"
    /\ pc = "solved"
    /\ LET result == quick_sympy_steps(latex, outcome)
       IN  /\ calls' = Append(calls, Call("quick_sympy_steps", latex, outcome, result))
           /\ steps' = result.value
           /\ note' = IF note = <<>> THEN FALLBACK_NOTE ELSE note
           /\ response' = Respond(latex, steps', note')
    /\ pc' = "done"
    /\ UNCHANGED <<op, upload, img, latex>>

\* lines 58-72
SolveRespond(outcome) ==
    /\ op = "solve"
    /\ pc = "solved"
    /\ IF steps = <<>>
       THEN LET result == quick_sympy_steps(latex, outcome)
            IN  /\ calls' = Append(calls, Call("quick_sympy_steps", latex, outcome, result))
                /\ IF result.raised
                   THEN /\ response' = [error |-> result.msg]
                        /\ UNCHANGED <<steps, note>>
                   ELSE /\ steps' = result.value
                        /\ note' = IF note = <<>> THEN FALLBACK_NOTE ELSE note
                        /\ response' = Respond(latex, steps', note')
       ELSE /\ response' = Respond(latex, steps, note)
            /\ UNCHANGED <<steps, note, calls>>
    /\ pc' = "done"
    /\ UNCHANGED <<op, upload, img, latex>>

\* ocr_with_gemini called directly, with any of the inputs it accepts
CallOcr(img_input, remote) ==
    /\ pc = "idle"
    /\ op' = "ocr_with_gemini"
    /\ calls' = Append(calls, Call("ocr_with_gemini", img_input, remote.kind, ocr_with_gemini(img_input, remote)))
    /\ pc' = "done"
    /\ UNCHANGED <<upload, img, latex, steps, note, response>>

\* quick_sympy_steps called directly, with any text
CallSympy(text, outcome) ==
    /\ pc = "idle"
    /\ op' = "quick_sympy_steps"
    /\ calls' = Append(calls, Call("quick_sympy_steps", text, outcome, quick_sympy_steps(text, outcome)))
    /\ pc' = "done"
    /\ UNCHANGED <<upload, img, latex, steps, note, response>>

Next ==
    \/ \E u \in Uploads : PredictDecode(u)
    \/ \E remote \in OcrReplies : PredictOcr(remote)
    \/ \E u \in Uploads : SolveDecode(u)
    \/ \E remote \in OcrReplies : SolveOcr(remote)
    \/ \E remote \in SolverReplies : SolveSteps(remote)
    \/ \E outcome \in SimplifyOutcomes : SolveRespond(outcome)
    \/ \E img_input \in OcrInputs, remote \in OcrReplies : CallOcr(img_input, remote)
    \/ \E text \in Texts, outcome \in SimplifyOutcomes : CallSympy(text, outcome)

Spec == Init /\ [][Next]_vars

----------------------------------------------------------------------------
\* Properties

CallsOf(fn) == {i \in 1..Len(calls) : calls[i].fn = fn}
Called(fn) == CallsOf(fn) # {}

\* the handler has returned a dict of the given endpoint
Returned(endpoint) == op = endpoint /\ pc = "done"
\* /solve has returned its success response
SolveOk == Returned("solve") /\ "steps" \in DOMAIN response

\* an exception was caught inside the adapter or the fallback
Caught(c) == c.res.msg # <<>>

\* the OCR stage gave no transcription: its call failed or came back empty
OcrDegraded == \E i \in CallsOf("ocr_with_gemini") : Caught(calls[i]) \/ calls[i].res.value = <<>>
\* the solver stage gave no model-backed steps: its call failed or came back empty
SolverDegraded == \E i \in CallsOf("solve_with_gemini") : Caught(calls[i]) \/ calls[i].res.value = <<>>
SomeStageDegraded == OcrDegraded \/ SolverDegraded \/ Called("quick_sympy_steps")

\* C1: every successful /solve response carries the key note if and only if
\* some stage degraded (the OCR or solver call failed or came back empty, or
\* the fallback ran).
C1_NoteIffDegraded ==
    SolveOk => (("note" \in DOMAIN response) <=> SomeStageDegraded)

\* C2: in a /solve request whose OCR call returned "", the step solver is
\* never invoked, and once the handler has returned, the fallback was invoked
\* with "" and the steps of the response are the one "could not parse" step.
C2_EmptyLatexSkipsSolver ==
    (op = "solve" /\ \E i \in CallsOf("ocr_with_gemini") : calls[i].res.value = <<>>)
        => /\ ~Called("solve_with_gemini")
           /\ pc = "done" =>
                /\ \E i \in CallsOf("quick_sympy_steps") : calls[i].arg = <<>>
                /\ DOMAIN response = {"latex", "steps", "note"}
                /\ Len(response.steps) = 1
                /\ response.steps[1].step = COULD_NOT_PARSE

C2_Witness ==
    /\ Returned("solve")
    /\ \E i \in CallsOf("ocr_with_gemini") : calls[i].res.value = <<>>
    /\ Called("quick_sympy_steps")

\* C3: on either endpoint, an upload that does not decode as an image yields
\* exactly {"error": <non-empty string>} and no OCR, solver or fallback call.
C3_UndecodableUpload ==
    (op \in {"predict", "solve"} /\ upload.kind = "garbage")
        => /\ pc = "done"
           /\ DOMAIN response = {"error"}
           /\ response.error # <<>>
           /\ calls = <<>>

C3_Witness == Returned("predict") /\ upload.kind = "garbage" /\ "error" \in DOMAIN response

\* C4: in every successful /solve response, each element of steps has step
\* and detail present and both are strings.
C4_StepsAreStrings ==
    SolveOk => \A i \in 1..Len(response.steps) :
                    /\ response.steps[i].step.t = "str"
                    /\ response.steps[i].detail.t = "str"

\* the reply of the remote solver cannot be used: the call or reading it raised
ReplyFails(remote) == remote.kind \in {"raise", "text_raises", "text_none"} \/ ~remote.doc.wf

\* C5: when the step solver's remote call or the parsing of its reply fails,
\* the adapter returns the one step "AI solver unavailable", and the handler
\* returns that list as the final steps without invoking the fallback.
C5_SolverFailureInBand ==
    \A i \in CallsOf("solve_with_gemini") :
        (ReplyFails(calls[i].remote) \/ Caught(calls[i]))
            => /\ ~calls[i].res.raised
               /\ Len(calls[i].res.value) = 1
               /\ calls[i].res.value[1].step = AI_SOLVER_UNAVAILABLE
               /\ pc \in {"solved", "done"} => steps = calls[i].res.value
               /\ pc = "done" =>
                    /\ "steps" \in DOMAIN response
                    /\ response.steps = calls[i].res.value
                    /\ ~Called("quick_sympy_steps")

C5_Witness ==
    /\ Returned("solve")
    /\ \E i \in CallsOf("solve_with_gemini") : ReplyFails(calls[i].remote)

\* C6: ocr_with_gemini never raises to its caller, returns "" whenever the
\* remote call, reading its reply or preparing the input failed, and sends at
\* most one request per call.
C6_OcrNeverRaises ==
    \A i \in CallsOf("ocr_with_gemini") :
        /\ ~calls[i].res.raised
        /\ calls[i].res.requests <= 1
        /\ (\/ Caught(calls[i])
            \/ calls[i].remote \in {"raise", "none", "text_raises", "text_none"}
            \/ calls[i].arg.type = "other"
            \/ ~calls[i].arg.readable)
                => calls[i].res.value = <<>>

C6_Witness ==
    /\ pc = "done"
    /\ \E i \in CallsOf("ocr_with_gemini") : Caught(calls[i]) /\ calls[i].res.requests = 1

\* C7: the fallback returns without raising, with exactly the two steps
\* "Parse LaTeX", "Simplify" in that order or exactly the one step "Could not
\* parse with SymPy"; a request that ran the fallback never answers {error}.
C7_FallbackShape ==
    /\ \A i \in CallsOf("quick_sympy_steps") :
          /\ ~calls[i].res.raised
          /\ \/ /\ Len(calls[i].res.value) = 2
                /\ calls[i].res.value[1].step = PARSE_LATEX
                /\ calls[i].res.value[2].step = SIMPLIFY
             \/ /\ Len(calls[i].res.value) = 1
                /\ calls[i].res.value[1].step = COULD_NOT_PARSE
    /\ (Returned("solve") /\ Called("quick_sympy_steps")) => "error" \notin DOMAIN response

C7_Witness ==
    /\ Returned("solve")
    /\ \E i \in CallsOf("quick_sympy_steps") : Caught(calls[i]) /\ calls[i].arg # <<>>

\* C8 as stated: no /solve request invokes both the step solver and the
\* fallback solver.
C8_MutuallyExclusive ==
    op = "solve" => ~(Called("solve_with_gemini") /\ Called("quick_sympy_steps"))

Rank(fn) ==
    CASE fn = "ocr_with_gemini" -> 1
      [] fn = "solve_with_gemini" -> 2
      [] OTHER -> 3

\* C8 amended: the stages of a /solve request run in sequence (OCR, then the
\* step solver, then the fallback, each at most once), and the fallback runs
\* exactly when the steps are empty after the solver stage: a request invokes
\* both the step solver and the fallback exactly when the solver returned [].
C8_FallbackIffNoSteps ==
    op = "solve" =>
        /\ \A i \in 1..Len(calls) : \A j \in 1..Len(calls) :
                i < j => Rank(calls[i].fn) < Rank(calls[j].fn)
        /\ calls # <<>> => calls[1].fn = "ocr_with_gemini"
        /\ \A i \in CallsOf("solve_with_gemini") :
                /\ Called("quick_sympy_steps") => calls[i].res.value = <<>>
                /\ (pc = "done" /\ calls[i].res.value = <<>>) => Called("quick_sympy_steps")

C8_Witness ==
    /\ Returned("solve")
    /\ Called("solve_with_gemini")
    /\ Called("quick_sympy_steps")

\* C9: in every /solve request that reaches the OCR adapter, the bytes sent
\* to the remote model are preprocess_image's output for the decoded upload.
C9_NormalizedBeforeOcr ==
    op = "solve" =>
        \A i \in CallsOf("ocr_with_gemini") : calls[i].res.sent.data = preprocess_image(img)

\* C10: in every successful /solve response note is present exactly when the
\* fallback was invoked, its value is then "SymPy fallback used.", and the
\* handler's OCR-unavailable and solver-unavailable notes never arise.
C10_NoteIsFallbackNote ==
    /\ note \in {<<>>, FALLBACK_NOTE}
    /\ SolveOk =>
          /\ ("note" \in DOMAIN response) <=> Called("quick_sympy_steps")
          /\ "note" \in DOMAIN response => response.note = FALLBACK_NOTE

C10_Witness ==
    /\ SolveOk
    /\ "note" \in DOMAIN response
    /\ Called("solve_with_gemini")

====
